---- MODULE Spec2Model ----
(***************************************************************************)
(* Construction of the bounding-volume hierarchy of src/main.rs:           *)
(* BVH::new, BVH::compute_bounds and BVH::subdivide, stepped one           *)
(* statement group at a time over an explicit call stack.                  *)
(*                                                                         *)
(* Numbers.  Every f32 the model reaches is integer-valued and is written  *)
(* as that integer; all inputs are chosen so.  Round is IEEE-754 binary32  *)
(* round-to-nearest-even on the integers: those of magnitude below 2^24    *)
(* are exact, the grid step is 2 from 2^24, 4 from 2^25, and so on.        *)
(* Every extent the program halves is even in the model (ArithmeticExact), *)
(* so x / 2.0, which f32 computes exactly, is \div 2.                      *)
(*                                                                         *)
(* Indices.  Node and primitive indices keep the program's 0-based         *)
(* values; NodeAt and CircleAt read the 1-based TLA+ sequences.            *)
(***************************************************************************)
EXTENDS Integers, Sequences, FiniteSets, TLC

VARIABLES
    circles,    \* BVH.circles: the primitive array, permuted in place
    nodes,      \* BVH.nodes: the node arena
    stack,      \* call stack of BVH::new and BVH::subdivide, top last
    status,     \* "running", "returned", or the fault that ended the run
    input,      \* the Vec<Circle> handed to BVH::new (never changes)
    returned    \* node indices whose subdivide call has returned

vars == <<circles, nodes, stack, status, input, returned>>

------------------------------------------------------------------------------
(* Bounds of the model *)

\* Longest generic primitive array handed to BVH::new.
MaxN == 5

\* Call-stack depth (frames of new and subdivide) at which the thread's
\* stack is exhausted.
MaxStack == 9

(* Program constants *)

\* bvh.subdivide(0, 2)
LeafThreshold == 2

\* usize::MAX, the value `j -= 1` wraps to from 0 when overflow checks are
\* off.  Only USIZE_MAX >= circles.len() matters to the program.
USIZE_MAX == 2147483647

\* f32 has a 24-bit significand: every integer below 2^24 is exact.
F32Exact == 2 ^ 24

------------------------------------------------------------------------------
(* f32 arithmetic *)

Abs(x) == IF x < 0 THEN -x ELSE x

\* Grid step of f32 at magnitude a (values of the model stay below 2^27).
Ulp(a) ==
    IF a < F32Exact THEN 1
    ELSE IF a < 2 * F32Exact THEN 2
    ELSE IF a < 4 * F32Exact THEN 4
    ELSE 8

\* Round to nearest representable f32, ties to the even significand.
Round(x) ==
    LET u   == Ulp(Abs(x))
        q   == x \div u
        rem == x - q * u
    IN  IF 2 * rem < u THEN q * u
        ELSE IF 2 * rem > u THEN (q + 1) * u
        ELSE IF q % 2 = 0 THEN q * u
        ELSE (q + 1) * u

Min(a, b) == IF a < b THEN a ELSE b
Max(a, b) == IF a > b THEN a ELSE b

Axes == 1 .. 3

\* Vec3 - f32, Vec3 + f32, Vec3 - Vec3 (glam), each component rounded.
VecSubScalar(v, s) == [k \in Axes |-> Round(v[k] - s)]
VecAddScalar(v, s) == [k \in Axes |-> Round(v[k] + s)]
VecSub(a, b) == [k \in Axes |-> Round(a[k] - b[k])]
VecMin(a, b) == [k \in Axes |-> Min(a[k], b[k])]
VecMax(a, b) == [k \in Axes |-> Max(a[k], b[k])]

\* x / 2.0
Half(x) == x \div 2

------------------------------------------------------------------------------
(* AABB, Circle, BVHNode *)

\* AABB::default()
DefaultAABB == [lb |-> <<0, 0, 0>>, ub |-> <<0, 0, 0>>]

\* AABB::union
Union(a, b) == [lb |-> VecMin(a.lb, b.lb), ub |-> VecMax(a.ub, b.ub)]

\* Circle::aabb
Aabb(c) == [lb |-> VecSubScalar(c.translation, c.radius),
            ub |-> VecAddScalar(c.translation, c.radius)]

Circle(x, y, z, r) == [translation |-> <<x, y, z>>, radius |-> r]

\* BVHNode::Leaf and BVHNode::Internal; the fields of the other variant are 0.
Leaf(b, s, e) ==
    [kind |-> "Leaf", bounds |-> b, start |-> s, end |-> e,
     left |-> 0, right |-> 0]
Internal(b, l, r) ==
    [kind |-> "Internal", bounds |-> b, start |-> 0, end |-> 0,
     left |-> l, right |-> r]

NodeAt(ns, idx) == ns[idx + 1]
CircleAt(cs, i) == cs[i + 1]

\* Faulty swap: writes cs[b] over cs[a] and never stores the old cs[a].
SwapOverwrite(cs, a, b) == [cs EXCEPT ![a + 1] = cs[b + 1]]

\* Vec::swap
Swap(cs, a, b) ==
    [cs EXCEPT ![a + 1] = cs[b + 1], ![b + 1] = cs[a + 1]]

\* self.nodes[node_idx] = node
StoreNode(ns, idx, node) == [ns EXCEPT ![idx + 1] = node]

------------------------------------------------------------------------------
(* BVH::compute_bounds *)

\* for i in *start + 1..*end { new_bounds = new_bounds.union(...) }
RECURSIVE FoldBounds(_, _, _, _)
FoldBounds(cs, acc, i, end) ==
    IF i >= end THEN acc
    ELSE FoldBounds(cs, Union(acc, Aabb(CircleAt(cs, i))), i + 1, end)

\* The Leaf arm: the first box is read at circles[start], whatever the range.
LeafBounds(cs, start, end) ==
    FoldBounds(cs, Aabb(CircleAt(cs, start)), start + 1, end)

\* The Internal arm.
InternalBounds(ns, left, right) ==
    Union(NodeAt(ns, left).bounds, NodeAt(ns, right).bounds)

\* compute_bounds indexes self.circles out of range (the slice index panics).
ComputeBoundsPanics(ns, cs, idx) ==
    LET node == NodeAt(ns, idx)
    IN  /\ node.kind = "Leaf"
        /\ \/ node.start >= Len(cs)
           \/ \E i \in (node.start + 1) .. (node.end - 1) : i >= Len(cs)

\* The arena after compute_bounds(node_idx).
ComputeBounds(ns, cs, idx) ==
    LET node == NodeAt(ns, idx)
        b    == IF node.kind = "Internal"
                THEN InternalBounds(ns, node.left, node.right)
                ELSE LeafBounds(cs, node.start, node.end)
    IN  StoreNode(ns, idx, [node EXCEPT !.bounds = b])

------------------------------------------------------------------------------
(* The pieces of BVH::subdivide *)

\* extent = bounds.ub - bounds.lb
Extent(bounds) == VecSub(bounds.ub, bounds.lb)

\* The longest axis (0, 1 or 2); x wins ties with y, the winner with z.
SplitAxis(extent) ==
    LET a1 == IF extent[2] > extent[1] THEN 1 ELSE 0
    IN  IF extent[3] > extent[a1 + 1] THEN 2 ELSE a1

\* Faulty plane: the extent is not halved.
SplitPlaneUnhalved(bounds, axis) ==
    Round(bounds.lb[axis + 1] + Extent(bounds)[axis + 1])

\* split = bounds.lb[axis] + extent[axis] / 2.0
SplitPlane(bounds, axis) ==
    Round(bounds.lb[axis + 1] + Half(Extent(bounds)[axis + 1]))

\* Faulty comparison: <= for <.
BelowOrAt(c, axis, split) == c.translation[axis + 1] <= split

\* self.circles[i].translation[axis] < split
Below(c, axis, split) == c.translation[axis + 1] < split

\* if i == end - 1 || i == start { return; }
DegenerateGuard(i, start, end) == i = end - 1 \/ i = start

\* Faulty right leaf: starts one past the partition point.
RightLeafSkipping(start, i, end) == Leaf(DefaultAABB, i + 1, end)

\* The two leaves pushed for partition point i.
LeftLeaf(start, i, end) == Leaf(DefaultAABB, start, i)
RightLeaf(start, i, end) == Leaf(DefaultAABB, i, end)

\* Faulty push: the left leaf is stored over the arena's last slot.
PushChildrenOver(ns, left, right) ==
    Append([ns EXCEPT ![Len(ns)] = left], right)

\* self.nodes.push(left); self.nodes.push(right)
PushChildren(ns, left, right) == Append(Append(ns, left), right)

\* Faulty rewrite: the final compute_bounds(node_idx) is missing.
RewriteInternalStale(ns, cs, idx, l, r) ==
    StoreNode(ns, idx, Internal(DefaultAABB, l, r))

\* nodes[node_idx] = Internal { .. }; compute_bounds(node_idx)
RewriteInternal(ns, cs, idx, l, r) ==
    ComputeBounds(StoreNode(ns, idx, Internal(DefaultAABB, l, r)), cs, idx)

------------------------------------------------------------------------------
(* Call stack *)

\* A frame of BVH::new or BVH::subdivide: its position and its locals.
\* entry is the primitive array as the call found it.
Frame(fn, pc, idx, cs) ==
    [fn |-> fn, pc |-> pc, node_idx |-> idx, start |-> 0, end |-> 0,
     axis |-> 0, split |-> 0, i |-> 0, j |-> 0, l |-> 0, r |-> 0,
     entry |-> cs]

Top == stack[Len(stack)]
Depth == Len(stack)
Running == status = "running" /\ Depth > 0

SetTop(f) == [stack EXCEPT ![Len(stack)] = f]
Pop == SubSeq(stack, 1, Len(stack) - 1)

\* The stack after the top frame moves to pc and calls subdivide(idx).
CallSubdivide(pc, idx) ==
    Append(SetTop([Top EXCEPT !.pc = pc]), Frame("subdivide", "enter", idx, circles))

------------------------------------------------------------------------------
(* Inputs *)

\* A coordinate next to the f32 binade boundary -2^25, where p - r rounds.
NearBinade == 2 - 2 * F32Exact

\* The primitives generic inputs are drawn from.
Kinds ==
    { Circle(0, 0, 0, 2), Circle(4, 0, 0, 2), Circle(0, 8, 0, 2),
      Circle(0, 0, 12, 4), Circle(NearBinade, NearBinade, NearBinade, 4) }

GenericInputs == UNION { [1 .. n -> Kinds] : n \in 0 .. MaxN }

\* Five primitives on the x axis, given in order, with one common radius.
ScenarioX == <<-10, -5, 0, 5, 10>>
ScenarioRadii == {1, 2, 3}
ScenarioInput(r) == [k \in 1 .. 5 |-> Circle(ScenarioX[k], 0, 0, r)]
ScenarioInputs == { ScenarioInput(r) : r \in ScenarioRadii }

Inputs == GenericInputs \cup ScenarioInputs

------------------------------------------------------------------------------
(* BVH::new *)

Init ==
    /\ input \in Inputs
    /\ circles = input
    /\ nodes = <<Leaf(DefaultAABB, 0, Len(input))>>
    /\ stack = <<Frame("new", "compute_bounds", 0, input)>>
    /\ status = "running"
    /\ returned = {}

\* bvh.compute_bounds(0)
NewComputeBounds ==
    /\ Running /\ Top.fn = "new" /\ Top.pc = "compute_bounds"
    /\ IF ComputeBoundsPanics(nodes, circles, 0)
       THEN /\ status' = "panic_index"
            /\ UNCHANGED <<nodes, stack>>
       ELSE /\ nodes' = ComputeBounds(nodes, circles, 0)
            /\ stack' = SetTop([Top EXCEPT !.pc = "subdivide"])
            /\ UNCHANGED status
    /\ UNCHANGED <<circles, input, returned>>

\* bvh.subdivide(0, 2)
NewSubdivide ==
    /\ Running /\ Top.fn = "new" /\ Top.pc = "subdivide"
    /\ stack' = CallSubdivide("return", 0)
    /\ UNCHANGED <<circles, nodes, status, input, returned>>

\* bvh
NewReturn ==
    /\ Running /\ Top.fn = "new" /\ Top.pc = "return"
    /\ status' = "returned"
    /\ stack' = Pop
    /\ UNCHANGED <<circles, nodes, input, returned>>

------------------------------------------------------------------------------
(* BVH::subdivide *)

InSubdivide(pc) == Running /\ Top.fn = "subdivide" /\ Top.pc = pc

\* return from subdivide(node_idx)
ReturnFrom(idx) ==
    /\ stack' = Pop
    /\ returned' = returned \cup {idx}

\* let node = self.nodes[node_idx]; match node { .. } up to the scan's start.
\* An Internal node goes straight to the two recursive calls; a Leaf within
\* the threshold returns; any other Leaf gets its axis, plane and cursors.
SubdivideEnter ==
    /\ InSubdivide("enter")
    /\ LET node == NodeAt(nodes, Top.node_idx)
           axis == SplitAxis(Extent(node.bounds))
       IN  IF node.kind = "Internal"
           THEN /\ stack' = SetTop([Top EXCEPT !.pc = "internal_left",
                                               !.l = node.left,
                                               !.r = node.right])
                /\ UNCHANGED returned
           ELSE IF node.end - node.start <= LeafThreshold
           THEN ReturnFrom(Top.node_idx)
           ELSE /\ stack' = SetTop([Top EXCEPT
                                      !.pc = "scan",
                                      !.start = node.start,
                                      !.end = node.end,
                                      !.axis = axis,
                                      !.split = SplitPlane(node.bounds, axis),
                                      !.i = node.start,
                                      !.j = node.end - 1])
                /\ UNCHANGED returned
    /\ UNCHANGED <<circles, nodes, status, input>>

\* while i <= j, the branch `i += 1`
ScanAdvance ==
    /\ InSubdivide("scan")
    /\ Top.i <= Top.j
    /\ Top.i < Len(circles)
    /\ Below(CircleAt(circles, Top.i), Top.axis, Top.split)
    /\ stack' = SetTop([Top EXCEPT !.i = Top.i + 1])
    /\ UNCHANGED <<circles, nodes, status, input, returned>>

\* while i <= j, the branch `self.circles.swap(i, j); j -= 1`.
\* swap panics on an index out of range.  At j = 0 the subtraction panics
\* when the build checks overflow and wraps to usize::MAX when it does not.
ScanSwap ==
    /\ InSubdivide("scan")
    /\ Top.i <= Top.j
    /\ Top.i < Len(circles)
    /\ ~Below(CircleAt(circles, Top.i), Top.axis, Top.split)
    /\ IF Top.j >= Len(circles)
       THEN /\ status' = "panic_index"
            /\ UNCHANGED <<circles, stack>>
       ELSE /\ circles' = Swap(circles, Top.i, Top.j)
            /\ IF Top.j > 0
               THEN /\ stack' = SetTop([Top EXCEPT !.j = Top.j - 1])
                    /\ UNCHANGED status
               ELSE \E overflow_checks \in BOOLEAN :
                      IF overflow_checks
                      THEN /\ status' = "panic_overflow"
                           /\ UNCHANGED stack
                      ELSE /\ stack' = SetTop([Top EXCEPT !.j = USIZE_MAX])
                           /\ UNCHANGED status
    /\ UNCHANGED <<nodes, input, returned>>

\* The scan is over and the guard holds: return, the node stays a Leaf.
GuardReturn ==
    /\ InSubdivide("scan")
    /\ Top.i > Top.j
    /\ DegenerateGuard(Top.i, Top.start, Top.end)
    /\ ReturnFrom(Top.node_idx)
    /\ UNCHANGED <<circles, nodes, status, input>>

\* The scan is over and the guard does not hold: push the two leaves.
AppendChildren ==
    /\ InSubdivide("scan")
    /\ Top.i > Top.j
    /\ ~DegenerateGuard(Top.i, Top.start, Top.end)
    /\ nodes' = PushChildren(nodes, LeftLeaf(Top.start, Top.i, Top.end),
                                    RightLeaf(Top.start, Top.i, Top.end))
    /\ stack' = SetTop([Top EXCEPT !.pc = "bounds_left",
                                   !.l = Len(nodes),
                                   !.r = Len(nodes) + 1])
    /\ UNCHANGED <<circles, status, input, returned>>

\* self.compute_bounds(l)
ComputeBoundsLeft ==
    /\ InSubdivide("bounds_left")
    /\ IF ComputeBoundsPanics(nodes, circles, Top.l)
       THEN /\ status' = "panic_index"
            /\ UNCHANGED <<nodes, stack>>
       ELSE /\ nodes' = ComputeBounds(nodes, circles, Top.l)
            /\ stack' = SetTop([Top EXCEPT !.pc = "bounds_right"])
            /\ UNCHANGED status
    /\ UNCHANGED <<circles, input, returned>>

\* self.compute_bounds(r)
ComputeBoundsRight ==
    /\ InSubdivide("bounds_right")
    /\ IF ComputeBoundsPanics(nodes, circles, Top.r)
       THEN /\ status' = "panic_index"
            /\ UNCHANGED <<nodes, stack>>
       ELSE /\ nodes' = ComputeBounds(nodes, circles, Top.r)
            /\ stack' = SetTop([Top EXCEPT !.pc = "call_left"])
            /\ UNCHANGED status
    /\ UNCHANGED <<circles, input, returned>>

\* self.subdivide(l, threshold), of the Leaf arm or of the Internal arm.
\* A call the thread's stack has no room for ends the run.
CallLeft ==
    /\ Running /\ Top.fn = "subdivide"
    /\ Top.pc \in {"call_left", "internal_left"}
    /\ IF Depth >= MaxStack
       THEN /\ status' = "stack_overflow"
            /\ UNCHANGED stack
       ELSE /\ stack' = CallSubdivide(IF Top.pc = "call_left"
                                      THEN "call_right"
                                      ELSE "internal_right", Top.l)
            /\ UNCHANGED status
    /\ UNCHANGED <<circles, nodes, input, returned>>

\* self.subdivide(r, threshold)
CallRight ==
    /\ Running /\ Top.fn = "subdivide"
    /\ Top.pc \in {"call_right", "internal_right"}
    /\ IF Depth >= MaxStack
       THEN /\ status' = "stack_overflow"
            /\ UNCHANGED stack
       ELSE /\ stack' = CallSubdivide(IF Top.pc = "call_right"
                                      THEN "rewrite"
                                      ELSE "internal_return", Top.r)
            /\ UNCHANGED status
    /\ UNCHANGED <<circles, nodes, input, returned>>

\* The Leaf arm's end: self.nodes[node_idx] = Internal { l, r };
\* self.compute_bounds(node_idx).  The Internal arm's end: return.
Rewrite ==
    /\ Running /\ Top.fn = "subdivide"
    /\ Top.pc \in {"rewrite", "internal_return"}
    /\ nodes' = IF Top.pc = "rewrite"
                THEN RewriteInternal(nodes, circles, Top.node_idx, Top.l, Top.r)
                ELSE nodes
    /\ ReturnFrom(Top.node_idx)
    /\ UNCHANGED <<circles, status, input>>

------------------------------------------------------------------------------

Next ==
    \/ NewComputeBounds
    \/ NewSubdivide
    \/ NewReturn
    \/ SubdivideEnter
    \/ ScanAdvance
    \/ ScanSwap
    \/ GuardReturn
    \/ AppendChildren
    \/ ComputeBoundsLeft
    \/ ComputeBoundsRight
    \/ CallLeft
    \/ CallRight
    \/ Rewrite

Spec == Init /\ [][Next]_vars

------------------------------------------------------------------------------
(* Sanity of the model's arithmetic *)

\* Every extent the program halves is even (so Half is exact), and every
\* stored number stays on the grid Ulp covers.
ArithmeticExact ==
    /\ \A k \in 1 .. Len(stack) :
         (stack[k].fn = "subdivide" /\ stack[k].pc = "scan") =>
            Extent(NodeAt(nodes, stack[k].node_idx).bounds)[stack[k].axis + 1] % 2 = 0
    /\ \A k \in 1 .. Len(nodes) : \A a \in Axes :
         /\ Abs(nodes[k].bounds.lb[a]) < 8 * F32Exact
         /\ Abs(nodes[k].bounds.ub[a]) < 8 * F32Exact

------------------------------------------------------------------------------
(* Vocabulary of the properties *)

N == Len(input)
Returned == status = "returned"
Faulted == status \in {"panic_index", "panic_overflow", "stack_overflow"}

\* The Leaf nodes reachable from node idx.
RECURSIVE ReachableLeaves(_)
ReachableLeaves(idx) ==
    LET node == NodeAt(nodes, idx)
    IN  IF node.kind = "Leaf" THEN {idx}
        ELSE ReachableLeaves(node.left) \cup ReachableLeaves(node.right)

LeafSize(idx) == NodeAt(nodes, idx).end - NodeAt(nodes, idx).start

\* The primitive indices of a range [s, e).
Range(s, e) == {p \in 0 .. (e - 1) : p >= s}

SetMin(S) == CHOOSE x \in S : \A y \in S : x <= y
SetMax(S) == CHOOSE x \in S : \A y \in S : x >= y

\* The range a subdivide frame works on: its node's, read at entry.
FrameStart(f) ==
    IF f.pc = "enter" THEN NodeAt(nodes, f.node_idx).start ELSE f.start
FrameEnd(f) ==
    IF f.pc = "enter" THEN NodeAt(nodes, f.node_idx).end ELSE f.end

SubdivideFrames ==
    {k \in 1 .. Len(stack) :
        stack[k].fn = "subdivide"
        /\ stack[k].pc \notin {"internal_left", "internal_right", "internal_return"}}

------------------------------------------------------------------------------
(* C1 *)

\* C1: once BVH::new has returned for a non-empty array, every leaf range
\* reachable from node 0 lies in [0, n) and every primitive index lies in
\* exactly one of them.
ExactPartition ==
    (Returned /\ N >= 1) =>
        /\ \A k \in ReachableLeaves(0) :
             /\ 0 <= NodeAt(nodes, k).start
             /\ NodeAt(nodes, k).start <= NodeAt(nodes, k).end
             /\ NodeAt(nodes, k).end <= N
        /\ \A p \in 0 .. (N - 1) :
             Cardinality({k \in ReachableLeaves(0) :
                            NodeAt(nodes, k).start <= p
                            /\ p < NodeAt(nodes, k).end}) = 1

\* A returned tree with at least three leaves.
ExactPartitionWitness ==
    Returned /\ Cardinality(ReachableLeaves(0)) >= 3

------------------------------------------------------------------------------
(* C2 *)

\* The union of the boxes of the primitives now at indices start..end.
BoxOfRange(s, e) ==
    [lb |-> [a \in Axes |-> SetMin({Aabb(CircleAt(circles, p)).lb[a] : p \in Range(s, e)})],
     ub |-> [a \in Axes |-> SetMax({Aabb(CircleAt(circles, p)).ub[a] : p \in Range(s, e)})]]

\* C2: in the returned tree every Internal node's bounds is the union of its
\* two children's bounds and every Leaf's bounds is the union of the boxes of
\* the primitives now in its range.
BoundsCorrect ==
    (Returned /\ N >= 1) =>
        \A k \in 0 .. (Len(nodes) - 1) :
            LET node == NodeAt(nodes, k)
            IN  IF node.kind = "Internal"
                THEN /\ node.bounds.lb =
                          [a \in Axes |-> Min(NodeAt(nodes, node.left).bounds.lb[a],
                                              NodeAt(nodes, node.right).bounds.lb[a])]
                     /\ node.bounds.ub =
                          [a \in Axes |-> Max(NodeAt(nodes, node.left).bounds.ub[a],
                                              NodeAt(nodes, node.right).bounds.ub[a])]
                ELSE node.bounds = BoxOfRange(node.start, node.end)

\* A returned tree with an Internal root, a Leaf the guard left above the
\* threshold, and a primitive array the build has reordered.
BoundsCorrectWitness ==
    /\ Returned
    /\ NodeAt(nodes, 0).kind = "Internal"
    /\ \E k \in ReachableLeaves(0) : LeafSize(k) > LeafThreshold
    /\ circles # input

------------------------------------------------------------------------------
(* C3 *)

Coincident(s, e) ==
    \A p, q \in Range(s, e) :
        CircleAt(circles, p).translation = CircleAt(circles, q).translation

\* C3: in the returned tree every leaf holds at most LeafThreshold
\* primitives or holds primitives that all share one position.
ThresholdOrCoincident ==
    Returned =>
        \A k \in ReachableLeaves(0) :
            \/ LeafSize(k) <= LeafThreshold
            \/ Coincident(NodeAt(nodes, k).start, NodeAt(nodes, k).end)

------------------------------------------------------------------------------
(* C4 *)

InputCoincident ==
    \A p, q \in 1 .. N : input[p] = input[q]

\* C4: more than LeafThreshold primitives with one position and one radius
\* are built without a fault, and the finished tree is the single Leaf
\* [0, n).
CoincidentInputBuilds ==
    (N > LeafThreshold /\ InputCoincident) =>
        /\ ~Faulted
        /\ \A k \in 1 .. Len(stack) : stack[k].j < N
        /\ Returned => /\ Len(nodes) = 1
                       /\ NodeAt(nodes, 0).kind = "Leaf"
                       /\ NodeAt(nodes, 0).start = 0
                       /\ NodeAt(nodes, 0).end = N

------------------------------------------------------------------------------
(* C5 *)

\* The x coordinates of the primitives now at indices s..e.
XsOf(s, e) == {CircleAt(circles, p).translation[1] : p \in Range(s, e)}

IsLeafOver(idx, s, e) ==
    /\ NodeAt(nodes, idx).kind = "Leaf"
    /\ NodeAt(nodes, idx).start = s
    /\ NodeAt(nodes, idx).end = e

------------------------------------------------------------------------------
(* C6 *)

\* C6: for a non-empty input every Leaf in the arena, at every moment of the
\* construction and after it, has end > start.
LeavesNonEmpty ==
    N >= 1 =>
        \A k \in 0 .. (Len(nodes) - 1) :
            NodeAt(nodes, k).kind = "Leaf" =>
                NodeAt(nodes, k).end > NodeAt(nodes, k).start

------------------------------------------------------------------------------
(* C7 *)

\* How often circle c occurs in the array cs.
Count(cs, c) == Cardinality({p \in 1 .. Len(cs) : cs[p] = c})

IsPermutation(a, b) ==
    /\ Len(a) = Len(b)
    /\ \A p \in 1 .. Len(a) : Count(a, a[p]) = Count(b, a[p])

------------------------------------------------------------------------------
(* C8 *)

ScanFinished(f) == f.fn = "subdivide" /\ f.pc = "scan" /\ f.i > f.j

\* C8: when the scan of [start, end) has finished with left cursor i, the
\* primitives at [start, i) lie strictly below the split plane on the split
\* axis and those at [i, end) lie at or above it.
PartitionedAtScanEnd ==
    (Depth > 0 /\ ScanFinished(Top)) =>
        /\ Top.start <= Top.i /\ Top.i <= Top.end
        /\ \A p \in Range(Top.start, Top.i) :
             CircleAt(circles, p).translation[Top.axis + 1] < Top.split
        /\ \A p \in Range(Top.i, Top.end) :
             CircleAt(circles, p).translation[Top.axis + 1] >= Top.split

\* A finished scan that swapped primitives and left both runs non-empty.
PartitionedAtScanEndWitness ==
    /\ Depth > 0 /\ ScanFinished(Top)
    /\ Top.start < Top.i /\ Top.i < Top.end
    /\ circles # Top.entry

------------------------------------------------------------------------------
(* C9 *)

\* C9: a step never shortens the arena; a slot that is Internal stays
\* Internal with the same children; a slot that stays a Leaf keeps its
\* range; and a slot turns from Leaf to Internal only when the subdivide
\* calls of both of its children have already returned.
SlotLifecycle ==
    [][ /\ Len(nodes') >= Len(nodes)
        /\ \A k \in 1 .. Len(nodes) :
             /\ nodes[k].kind = "Internal" =>
                   /\ nodes'[k].kind = "Internal"
                   /\ nodes'[k].left = nodes[k].left
                   /\ nodes'[k].right = nodes[k].right
             /\ (nodes[k].kind = "Leaf" /\ nodes'[k].kind = "Leaf") =>
                   /\ nodes'[k].start = nodes[k].start
                   /\ nodes'[k].end = nodes[k].end
             /\ (nodes[k].kind = "Leaf" /\ nodes'[k].kind = "Internal") =>
                   /\ nodes'[k].left \in returned
                   /\ nodes'[k].right \in returned
      ]_vars

\* A slot below the root has been rewritten as Internal.
SlotLifecycleWitness ==
    \E k \in 2 .. Len(nodes) : nodes[k].kind = "Internal"

------------------------------------------------------------------------------
(* C10 *)

\* C10: every recursive subdivide call works on a range strictly shorter
\* than its caller's, and the recursion never exhausts the stack.
ChildRangesShrink ==
    /\ status # "stack_overflow"
    /\ \A k \in SubdivideFrames :
         (k - 1) \in SubdivideFrames =>
             FrameEnd(stack[k]) - FrameStart(stack[k])
                < FrameEnd(stack[k - 1]) - FrameStart(stack[k - 1])

====
